---------------------------- MODULE Spec2Model ----------------------------
(***************************************************************************)
(* Polkit Explorer (src/polkitex.py): the PolicyModel that lists the       *)
(* <action id=""> elements of a .policy file, the filter proxy over it,    *)
(* the details pane filled when an action is selected, and the recent-     *)
(* files list kept in QSettings.                                           *)
(*                                                                         *)
(* Text is a sequence of one-character strings, so that strip() and the    *)
(* case-insensitive substring filter are computed, not assumed.  A parsed  *)
(* document is the sequence of its nodes in document (depth-first) order,  *)
(* each with the index of its parent (0 for the root).                     *)
(***************************************************************************)
EXTENDS Integers, Sequences, FiniteSets

(***************************************************************************)
(* Python values                                                           *)
(***************************************************************************)
\* Python's None where a str is expected: no character sequence equals it
\* (every character is a one-character string).
None == <<"None">>

\* bool(s) of an Optional[str]: None and "" are falsy.
IsTrueStr(s) == s # None /\ s # <<>>

\* s or "" (line 214)
OrEmpty(s) == IF IsTrueStr(s) THEN s ELSE <<>>

\* The characters str.strip() removes.
Whitespace == {" ", "\t", "\n"}

RECURSIVE LStrip(_)
LStrip(s) == IF s # <<>> /\ Head(s) \in Whitespace THEN LStrip(Tail(s)) ELSE s

RECURSIVE RStrip(_)
RStrip(s) ==
    IF s # <<>> /\ s[Len(s)] \in Whitespace
    THEN RStrip(SubSeq(s, 1, Len(s) - 1))
    ELSE s

\* str.strip()
Strip(s) == RStrip(LStrip(s))

RECURSIVE Replace(_, _, _)
\* str.replace(old, new) for one-character old and new
Replace(s, old, new) ==
    IF s = <<>> THEN <<>>
    ELSE <<IF Head(s) = old THEN new ELSE Head(s)>> \o Replace(Tail(s), old, new)

\* Unicode simple case folding on the letters the documents use.
Fold(c) ==
    CASE c = "A" -> "a"
      [] c = "B" -> "b"
      [] OTHER -> c

(***************************************************************************)
(* Bounds                                                                  *)
(***************************************************************************)
\* Number of policy files in the directory without actions (PlainDir): more
\* files than MAX_RECENT, so that the recent list overflows.
NumPlain == 6
\* Longest filter text typed into the filter box.
MaxNeedleLen == 2

(***************************************************************************)
(* The parsed tree (lxml)                                                  *)
(***************************************************************************)
Elem(tag, parent, id, lang, text) ==
    [kind |-> "element", tag |-> tag, parent |-> parent,
     id |-> id, lang |-> lang, text |-> text]

\* An XML comment: lxml keeps it in the tree as a child node.
Cmt(parent) ==
    [kind |-> "comment", tag |-> "<cyfunction Comment>", parent |-> parent,
     id |-> None, lang |-> None, text |-> <<" ">>]

enUS == <<"e", "n", "-", "U", "S">>
frFR == <<"f", "r", "-", "F", "R">>
yes == <<"y", "e", "s">>
no == <<"n", "o">>
auth_admin == <<"a", "u", "t", "h", "_", "a", "d", "m", "i", "n">>

\* a.policy
DocA == <<
    Elem("policyconfig", 0, None, None, None),                        \*  1
    \* one description tagged en-US, one untagged; defaults of two entries
    Elem("action", 1, <<"a", ".", "B">>, None, None),                 \*  2
    Elem("description", 2, None, enUS, <<"T">>),                      \*  3
    Elem("description", 2, None, None, <<"U">>),                      \*  4
    Elem("defaults", 2, None, None, None),                            \*  5
    Elem("allow_any", 5, None, None, yes),                            \*  6
    Elem("allow_active", 5, None, None, auth_admin),                  \*  7
    \* an action nested in a grouping element
    Elem("vendor", 1, None, None, None),                              \*  8
    Elem("action", 8, <<"A", ".", "b">>, None, None),                 \*  9
    Elem("description", 9, None, <<"e", "n", "-", "u", "s">>, <<"L">>),  \* 10
    Elem("description", 9, None, <<"e", "n">>, <<"P">>),              \* 11
    Elem("description", 9, None, enUS, <<" ", "x", " ", "y", "\n">>), \* 12
    Elem("description", 9, None, enUS, <<"Z">>),                      \* 13
    Elem("_description", 9, None, None, <<"G">>),                     \* 14
    Elem("defaults", 9, None, None, None),                            \* 15
    Elem("allow_any", 15, None, None, no),                            \* 16
    Elem("allow_any", 15, None, None, yes),                           \* 17
    Elem("frob", 15, None, None, None),                               \* 18
    Elem("defaults", 9, None, None, None),                            \* 19
    Elem("allow_inactive", 19, None, None, no),                       \* 20
    \* action elements without an id, and with an empty one
    Elem("action", 1, None, None, None),                              \* 21
    Elem("action", 1, <<>>, None, None),                              \* 22
    \* a second action with the id of the first; its description has markup
    Elem("action", 1, <<"a", ".", "B">>, None, None),                 \* 23
    Elem("description", 23, None, None, <<"M">>),                     \* 24
    Elem("b", 24, None, None, <<"m">>),                               \* 25
    Elem("_description", 23, None, None, <<"H">>),                    \* 26
    \* whitespace-only text; a defaults element that is not a direct child
    Elem("action", 1, <<"b">>, None, None),                           \* 27
    Elem("description", 27, None, enUS, <<" ", " ">>),                \* 28
    Elem("_description", 27, None, None, <<"K">>),                    \* 29
    Elem("annotate", 27, None, None, None),                           \* 30
    Elem("defaults", 30, None, None, None),                           \* 31
    Elem("allow_any", 31, None, None, yes),                           \* 32
    \* an action inside an action: no description, a comment among the defaults
    Elem("action", 27, <<"B">>, None, None),                          \* 33
    Elem("defaults", 33, None, None, None),                           \* 34
    Elem("allow_any", 34, None, None, yes),                           \* 35
    Cmt(34),                                                          \* 36
    Elem("allow_active", 34, None, None, no)                          \* 37
>>

\* b.policy: the root itself is an action
DocB == <<
    Elem("action", 0, <<"B", ".", "a">>, None, None),                 \* 1
    Elem("description", 1, None, None, <<"D">>),                      \* 2
    Elem("_description", 1, None, None, <<"O">>),                     \* 3
    Elem("defaults", 1, None, None, None),                            \* 4
    Elem("action", 1, <<"b">>, None, None),                           \* 5
    Elem("description", 5, None, frFR, None)                          \* 6
>>

\* a policy file that defines no action
DocPlain == <<Elem("policyconfig", 0, None, None, None)>>

(***************************************************************************)
(* The file system                                                         *)
(***************************************************************************)
\* A path is <<name, number>>.  The session browses one of two directories:
\* RichDir, whose files exercise the parser and the details pane, or
\* PlainDir, whose many files (none with an action) exercise the recent list.
RichDir == {<<"a.policy", 0>>, <<"b.policy", 0>>, <<"bad.policy", 0>>,
            <<"denied.policy", 0>>, <<"link.policy", 0>>}
PlainDir == {<<"plain.policy", i>> : i \in 1..NumPlain}
Dirs == {RichDir, PlainDir}

\* Path(path).resolve(): link.policy is a symbolic link to a.policy.
Resolve(p) == IF p[1] = "link.policy" THEN <<"a.policy", 0>> ELSE p

\* etree.parse(policy_path, parser): the tree, or the exception raised.
Parse(p) ==
    LET name == Resolve(p)[1] IN
    CASE name = "a.policy" -> [error |-> "", doc |-> DocA]
      [] name = "b.policy" -> [error |-> "", doc |-> DocB]
      [] name = "bad.policy" -> [error |-> "XMLSyntaxError", doc |-> <<>>]
      [] name = "denied.policy" -> [error |-> "OSError", doc |-> <<>>]
      [] OTHER -> [error |-> "", doc |-> DocPlain]

Indices(s) == [i \in 1..Len(s) |-> i]

\* list(el): the child nodes of node n, comments included, in document order
ChildrenOf(doc, n) == SelectSeq(Indices(doc), LAMBDA m : doc[m].parent = n)

\* len(el) != 0, which is what bool(el) is for an lxml element
Truthy(doc, n) == ChildrenOf(doc, n) # <<>>

\* el.find(tag): the first child element of that name, 0 for None
Find(doc, n, tag) ==
    LET hits == SelectSeq(ChildrenOf(doc, n),
                          LAMBDA m : doc[m].kind = "element" /\ doc[m].tag = tag)
    IN IF hits = <<>> THEN 0 ELSE hits[1]


(***************************************************************************)
(* PolicyModel.load                                                        *)
(***************************************************************************)
\* root.findall("action") in place of root.iter("action"): the root's children only
IterDirectChildren(doc) ==
    SelectSeq(Indices(doc),
              LAMBDA n : /\ doc[n].kind = "element"
                         /\ doc[n].tag = "action"
                         /\ doc[n].parent = 1)

\* root.iter("action"): every element named action, the root included, at
\* any depth, in document order
IterActions(doc) ==
    SelectSeq(Indices(doc),
              LAMBDA n : doc[n].kind = "element" /\ doc[n].tag = "action")

\* One row per action element whose id is truthy: the item's text is the id,
\* its UserRole data the element (here: the path parsed and the node).
NewRows(p, doc) ==
    LET kept == SelectSeq(IterActions(doc), LAMBDA n : IsTrueStr(doc[n].id))
    IN [i \in 1..Len(kept) |-> [text |-> doc[kept[i]].id, data |-> <<p, kept[i]>>]]

\* load without its self.clear(): the new rows are appended to the old
KeepRows(rows) == rows

\* self.clear()
Cleared(rows) == <<>>

\* load parsing before it clears: a failed load keeps the old rows
PreservedOnFailure(rows) == rows

\* The rows once etree.parse has raised: clear() ran before it.
RowsAfterFailedLoad(rows) == Cleared(rows)

\* The rows once load has returned.
RowsAfterLoad(rows, p) == Cleared(rows) \o NewRows(p, Parse(p).doc)

(***************************************************************************)
(* The filter proxy                                                        *)
(***************************************************************************)
\* The proxy without setFilterCaseSensitivity(Qt.CaseInsensitive)
FilterAcceptsRowCaseSensitive(text, needle) ==
    \E i \in 0..(Len(text) - Len(needle)) :
        \A j \in 1..Len(needle) : text[i + j] = needle[j]

\* QSortFilterProxyModel with a fixed filter string and Qt.CaseInsensitive:
\* the row's text contains the string, characters compared case-folded.
FilterAcceptsRow(text, needle) ==
    \E i \in 0..(Len(text) - Len(needle)) :
        \A j \in 1..Len(needle) : Fold(text[i + j]) = Fold(needle[j])

\* The proxy's rows: the source rows it accepts, in source order.
Refilter(rows, needle) ==
    SelectSeq(Indices(rows), LAMBDA i : FilterAcceptsRow(rows[i].text, needle))

(***************************************************************************)
(* The description and the defaults of an action element                   *)
(***************************************************************************)
\* QLocale.system().name()
SystemLocales == {<<"e", "n", "_", "U", "S">>, <<"f", "r", "_", "F", "R">>}

Locale(name) == Replace(name, "_", "-")

\* A predicate that also takes a lang that is a prefix of the locale
LangMatchesPrefix(lang, loc) ==
    /\ lang # None
    /\ Len(lang) <= Len(loc)
    /\ SubSeq(loc, 1, Len(lang)) = lang

\* The predicate [@xml:lang='locale']: string equality.
LangMatches(lang, loc) == lang = loc

\* action_el.xpath("./description[@xml:lang='locale']")
XPathLang(doc, n, loc) ==
    SelectSeq(ChildrenOf(doc, n),
              LAMBDA m : /\ doc[m].kind = "element"
                         /\ doc[m].tag = "description"
                         /\ LangMatches(doc[m].lang, loc))

\* a or b on two find() results: a when it is not None and bool(a), else b
OrElement(doc, a, b) == IF a # 0 /\ Truthy(doc, a) THEN a ELSE b

\* desc_el
DescEl(doc, n, loc) ==
    LET nodes == XPathLang(doc, n, loc) IN
    IF nodes # <<>> THEN nodes[1]
    ELSE OrElement(doc, Find(doc, n, "description"), Find(doc, n, "_description"))

\* The label's text when no description is shown; "<<" and ">>" stand for
\* the two guillemets.
NoDescription ==
    <<"<<", "n", "o", " ", "d", "e", "s", "c", "r", "i", "p", "t", "i", "o", "n", ">>">>

\* The argument of descLabel.setText
DescText(doc, el) ==
    IF el # 0 /\ IsTrueStr(doc[el].text) THEN Strip(doc[el].text) ELSE NoDescription

RECURSIVE FillRows(_, _, _)
\* The loop over defaults_el.  A table row is <<tag, value>>; QTableWidgetItem
\* takes a str, and a comment's tag is a function: the row is inserted, the
\* constructor raises, and the row stays without items (<<>>).
FillRows(doc, kids, acc) ==
    IF kids = <<>> THEN [rows |-> acc, raised |-> ""]
    ELSE LET c == Head(kids) IN
         IF doc[c].kind # "element"
         THEN [rows |-> Append(acc, <<>>), raised |-> "TypeError"]
         ELSE FillRows(doc, Tail(kids),
                       Append(acc, <<doc[c].tag, OrEmpty(doc[c].text)>>))

\* The defaults table after setRowCount(0) and the loop.
DefaultsRows(doc, n) ==
    LET defaults_el == Find(doc, n, "defaults") IN
    IF defaults_el = 0 THEN [rows |-> <<>>, raised |-> ""]
    ELSE FillRows(doc, ChildrenOf(doc, defaults_el), <<>>)

TagDesc(tag) ==
    CASE tag = "allow_any" -> "applies to all subjects"
      [] tag = "allow_inactive" -> "applies to subjects in an inactive session"
      [] tag = "allow_active" -> "applies to subjects in an active local session"
      [] OTHER -> "No description available."

ValueDesc(value) ==
    CASE value = yes -> "allowed without further authentication"
      [] value = no -> "always denied"
      [] value = auth_admin -> "an administrator must authenticate"
      [] OTHER -> "No description available."

(***************************************************************************)
(* Recent files                                                            *)
(***************************************************************************)
MAX_RECENT == 5

RECURSIVE RemoveFirst(_, _)
\* list.remove(x): removes the first occurrence
RemoveFirst(s, x) ==
    IF s = <<>> THEN <<>>
    ELSE IF Head(s) = x THEN Tail(s)
    ELSE <<Head(s)>> \o RemoveFirst(Tail(s), x)

InSeq(x, s) == \E i \in 1..Len(s) : s[i] = x

\* s[:n]
Take(s, n) == SubSeq(s, 1, IF Len(s) < n THEN Len(s) ELSE n)

\* _add_recent without the removal of the path already listed
AddRecentNoDedup(recents, path) == Take(<<Resolve(path)>> \o recents, MAX_RECENT)

\* The list _add_recent stores.
AddRecent(recents, path) ==
    LET r == Resolve(path)
        without == IF InSeq(r, recents) THEN RemoveFirst(recents, r) ELSE recents
    IN Take(<<r>> \o without, MAX_RECENT)

(***************************************************************************)
(* State                                                                   *)
(***************************************************************************)
VARIABLES
    dir,          \* the policy files the file dialog offers
    locale,       \* QLocale.system().name()
    model,        \* the rows of the PolicyModel
    filterEdit,   \* the filter box's text, which is the proxy's filter string
    proxy,        \* the proxy's rows: indices of the source rows shown
    tree,         \* the source row selected in the tree, 0 for none
    descLabel,    \* the description shown
    defaults,     \* the rows of the defaults table
    currentRow,   \* the table's current row (from 0), -1 for none
    explLabel,    \* the explanation shown, <<>> when cleared
    recent,       \* the settings' "recent" list
    recent_menu,  \* the paths of the Open Recent menu
    lastLoad,     \* <<path, error>> of the last load() call, <<>> before any
    raised        \* the exception that escaped the last handler, "" for none

vars == <<dir, locale, model, filterEdit, proxy, tree, descLabel, defaults,
          currentRow, explLabel, recent, recent_menu, lastLoad, raised>>

details == <<descLabel, defaults, currentRow, explLabel>>

Init ==
    /\ dir \in Dirs
    \* the locale is read only to describe an action: PlainDir has none
    /\ locale \in IF dir = PlainDir THEN {<<"e", "n", "_", "U", "S">>} ELSE SystemLocales
    /\ model = <<>>
    /\ filterEdit = <<>>
    /\ proxy = <<>>
    /\ tree = 0
    /\ descLabel = <<>>
    /\ defaults = <<>>
    /\ currentRow = -1
    /\ explLabel = <<>>
    /\ recent = <<>>
    /\ recent_menu = <<>>
    /\ lastLoad = <<>>
    /\ raised = ""

(***************************************************************************)
(* Handlers                                                                *)
(***************************************************************************)
\* open_file once it has a path: _load_policy, then _add_recent.  When load
\* raises, nothing after it runs.
Open(p) ==
    LET error == Parse(p).error IN
    /\ lastLoad' = <<p, error>>
    /\ raised' = error
    /\ tree' = 0
    /\ UNCHANGED <<dir, locale, details>>
    /\ IF error # ""
       THEN /\ model' = RowsAfterFailedLoad(model)
            /\ proxy' = <<>>
            /\ UNCHANGED <<filterEdit, recent, recent_menu>>
       ELSE /\ model' = RowsAfterLoad(model, p)
            /\ filterEdit' = <<>>
            /\ proxy' = Refilter(model', filterEdit')
            /\ recent' = AddRecent(recent, p)
            /\ recent_menu' = recent'

\* File > Open, a file chosen in the dialog
OpenFile(p) == Open(p)

\* File > Open, the dialog cancelled
OpenCancelled ==
    /\ raised' = ""
    /\ UNCHANGED <<dir, locale, model, filterEdit, proxy, tree, details,
                   recent, recent_menu, lastLoad>>

\* An entry of the Open Recent menu
OpenRecent(k) ==
    /\ k \in 1..Len(recent_menu)
    /\ Open(recent_menu[k])

\* "Clear list" of the Open Recent menu: the menu itself is not rebuilt
ClearRecent ==
    /\ recent' = <<>>
    /\ raised' = ""
    /\ UNCHANGED <<dir, locale, model, filterEdit, proxy, tree, details,
                   recent_menu, lastLoad>>

RECURSIVE Needles(_)
\* The texts of at most n characters over the letters typed.
Needles(n) ==
    IF n = 0 THEN {<<>>}
    ELSE Needles(n - 1) \cup {Append(s, c) : s \in Needles(n - 1), c \in {"A", "."}}

\* filterEdit.textChanged -> proxy.setFilterFixedString; a selected row that
\* is filtered out is deselected, and _on_action_selected returns at once.
FilterChanged(needle) ==
    /\ needle # filterEdit
    /\ filterEdit' = needle
    /\ proxy' = Refilter(model, needle)
    /\ tree' = IF InSeq(tree, proxy') THEN tree ELSE 0
    /\ raised' = ""
    /\ UNCHANGED <<dir, locale, model, details, recent, recent_menu, lastLoad>>

\* _on_action_selected for the k-th row shown
SelectAction(k) ==
    /\ k \in 1..Len(proxy)
    /\ proxy[k] # tree
    /\ LET src_idx == proxy[k]
           action_el == model[src_idx].data
           doc == Parse(action_el[1]).doc
           filled == DefaultsRows(doc, action_el[2])
       IN /\ tree' = src_idx
          /\ descLabel' = DescText(doc, DescEl(doc, action_el[2], Locale(locale)))
          /\ defaults' = filled.rows
          /\ currentRow' = -1
          /\ raised' = filled.raised
          \* setRowCount(0) removes the current row, if any: the table's
          \* itemSelectionChanged runs _on_default_row_selected, which clears
          \* the explanation or sets it again; line 216 is not reached when
          \* the loop raises.
          /\ explLabel' \in IF filled.raised = "" \/ currentRow # -1
                            THEN {<<>>} \cup (IF filled.raised = "" THEN {} ELSE {explLabel})
                            ELSE {explLabel}
    /\ UNCHANGED <<dir, locale, model, filterEdit, proxy, recent, recent_menu, lastLoad>>

\* _on_default_row_selected for row r of the table (from 0)
SelectDefaultRow(r) ==
    /\ r \in 0..(Len(defaults) - 1)
    /\ r # currentRow
    /\ currentRow' = r
    /\ LET row == defaults[r + 1] IN
       IF row = <<>>
       THEN \* item(row, 0) is None
            /\ raised' = "AttributeError"
            /\ UNCHANGED explLabel
       ELSE /\ raised' = ""
            /\ explLabel' = <<row[1], TagDesc(row[1])>> \o <<row[2], ValueDesc(row[2])>>
    /\ UNCHANGED <<dir, locale, model, filterEdit, proxy, tree, descLabel,
                   defaults, recent, recent_menu, lastLoad>>

Next ==
    \/ \E p \in dir : OpenFile(p)
    \/ OpenCancelled
    \/ \E k \in 1..MAX_RECENT : OpenRecent(k)
    \/ ClearRecent
    \/ \E needle \in Needles(MaxNeedleLen) : FilterChanged(needle)
    \/ \E k \in 1..Len(proxy) : SelectAction(k)
    \/ \E r \in 0..(Len(defaults) - 1) : SelectDefaultRow(r)

Spec == Init /\ [][Next]_vars

(***************************************************************************)
(* Properties                                                              *)
(***************************************************************************)
\* The path of the load() call a step ends with, if any: a step that is
\* Open(p) records p in lastLoad.
LoadedNow == IF lastLoad' = <<>> THEN {} ELSE {lastLoad'[1]}

Elems(s) == {s[i] : i \in 1..Len(s)}

NoDuplicates(s) == \A i, j \in 1..Len(s) : i # j => s[i] # s[j]

Least(S) == CHOOSE m \in S : \A k \in S : m <= k

LoadSucceeded == lastLoad # <<>> /\ lastLoad[2] = ""

LoadFailed == lastLoad # <<>> /\ lastLoad[2] # ""

\* The document and the node of the action selected in the tree.
SelDoc == Parse(model[tree].data[1]).doc
SelNode == model[tree].data[2]

\* The child elements of node n named tag
ChildElements(doc, n, tag) ==
    {m \in 1..Len(doc) : doc[m].parent = n /\ doc[m].kind = "element" /\ doc[m].tag = tag}

\* The system locale with "-" for "_"
LocaleTag == [i \in 1..Len(locale) |-> IF locale[i] = "_" THEN "-" ELSE locale[i]]

\* The description children of the selected action tagged with the locale
ExactMatches == {m \in ChildElements(SelDoc, SelNode, "description") : SelDoc[m].lang = LocaleTag}

Blank(t) == t = None \/ \A i \in 1..Len(t) : t[i] \in Whitespace

\* C1: after a successful load the rows are exactly the action elements of
\* the document that carry a non-empty id, at any depth, one row each, in
\* document order, each row showing its element's id.
C1_LoadListsActions ==
    LoadSucceeded =>
        LET doc == Parse(lastLoad[1]).doc
            withId == {n \in 1..Len(doc) : /\ doc[n].kind = "element"
                                           /\ doc[n].tag = "action"
                                           /\ doc[n].id # None
                                           /\ doc[n].id # <<>>}
        IN /\ Len(model) = Cardinality(withId)
           /\ \A i \in 1..Len(model) :
                 /\ model[i].data[2] \in withId
                 /\ model[i].text = doc[model[i].data[2]].id
                 /\ Len(model[i].text) > 0
           /\ \A i, j \in 1..Len(model) :
                 i < j => model[i].data[2] < model[j].data[2]

\* a.policy loaded: five rows, the first and third with the same id, the
\* second from a nested action, the id-less action elements left out
C1_Witness ==
    /\ LoadSucceeded
    /\ Resolve(lastLoad[1]) = <<"a.policy", 0>>
    /\ Len(model) = 5
    /\ model[1].text = model[3].text
    /\ DocA[model[2].data[2]].parent # 1

\* C4: a failed load raises the parser's exception out of the handler, adds
\* nothing to the recent files, and leaves the model without rows, whatever
\* was loaded before.
C4_FailedLoadEmpties ==
    [][/\ LoadFailed' => model' = <<>> /\ proxy' = <<>>
       /\ \A p \in LoadedNow :
             (Parse(p).error # "" /\ tree' = 0 /\ Open(p)) =>
                 /\ raised' = Parse(p).error
                 /\ raised' \in {"XMLSyntaxError", "OSError"}
                 /\ model' = <<>>
                 /\ recent' = recent]_vars

\* a load failed after an action of an earlier document had been shown
C4_Witness ==
    /\ LoadFailed
    /\ raised = lastLoad[2]
    /\ recent # <<>>
    /\ descLabel # <<>>
    /\ model = <<>>

\* C5: after a successful load of a file every row is an element of that
\* file's tree, and no element has two rows: nothing of an earlier load is
\* left.
C5_LoadReplaces ==
    LoadSucceeded =>
        /\ \A i \in 1..Len(model) : model[i].data[1] = lastLoad[1]
        /\ \A i, j \in 1..Len(model) : i # j => model[i].data # model[j].data

\* b.policy loaded after a.policy
C5_Witness ==
    /\ LoadSucceeded
    /\ lastLoad[1] = <<"b.policy", 0>>
    /\ Len(recent) = 2
    /\ Len(model) = 2

\* C6: when children named description carry an xml:lang equal to the
\* locale, the description shown is that of the first of them.
C6_ExactMatchFirst ==
    (tree # 0 /\ ExactMatches # {}) =>
        descLabel = DescText(SelDoc, Least(ExactMatches))

\* the nested action of a.policy under en_US: descriptions tagged en-us and
\* en come before the two tagged en-US
C6_Witness ==
    /\ tree = 2
    /\ Resolve(model[tree].data[1]) = <<"a.policy", 0>>
    /\ locale = <<"e", "n", "_", "U", "S">>
    /\ Cardinality(ExactMatches) = 2
    /\ descLabel = <<"x", " ", "y">>

LowerCase(s) == [i \in 1..Len(s) |-> Fold(s[i])]

ContainsIgnoringCase(text, needle) ==
    \E k \in 1..(Len(text) + 1) :
        /\ k + Len(needle) - 1 <= Len(text)
        /\ SubSeq(LowerCase(text), k, k + Len(needle) - 1) = LowerCase(needle)

\* C8: the rows shown are exactly the rows whose id contains the filter text,
\* letter case ignored, in the model's order; an empty filter shows them all;
\* and the model still holds what the last load put there.
C8_FilterProjection ==
    /\ \A i \in 1..Len(model) :
          InSeq(i, proxy) <=> ContainsIgnoringCase(model[i].text, filterEdit)
    /\ Elems(proxy) \subseteq 1..Len(model)
    /\ \A a, b \in 1..Len(proxy) : a < b => proxy[a] < proxy[b]
    /\ filterEdit = <<>> => proxy = Indices(model)
    /\ model = IF LoadSucceeded THEN NewRows(lastLoad[1], Parse(lastLoad[1]).doc)
               ELSE <<>>

\* a.policy filtered by "A.": a.B, A.b and a.B are shown, b and B are not
C8_Witness ==
    /\ filterEdit = <<"A", ".">>
    /\ Len(model) = 5
    /\ proxy = <<1, 2, 3>>
    /\ model[1].text = <<"a", ".", "B">>

\* C9: the recent list (empty at first) never comes to hold more than 5
\* paths nor a path twice; a
\* successful open puts the path opened first, keeps the order of the others,
\* and drops only the last path of a full list, when the path is new.
C9_RecentFiles ==
    [][/\ recent' # recent => Len(recent') <= 5 /\ NoDuplicates(recent')
       /\ \A p \in LoadedNow :
             (Parse(p).error = "" /\ tree' = 0 /\ filterEdit' = <<>> /\ Open(p)) =>
                 LET r == Resolve(p)
                     kept == Elems(recent') \ {r}
                     Pos(s, x) == CHOOSE i \in 1..Len(s) : s[i] = x
                 IN /\ recent'[1] = r
                    /\ kept \subseteq Elems(recent)
                    /\ \A x, y \in kept :
                          Pos(recent', x) < Pos(recent', y)
                              <=> Pos(recent, x) < Pos(recent, y)
                    /\ Elems(recent') =
                          IF InSeq(r, recent) \/ Len(recent) < 5
                          THEN Elems(recent) \cup {r}
                          ELSE (Elems(recent) \ {recent[5]}) \cup {r}]_vars

\* a full list whose first entry is the file just opened
C9_Witness ==
    /\ dir = PlainDir
    /\ Len(recent) = 5
    /\ LoadSucceeded
    /\ recent[1] = Resolve(lastLoad[1])
    /\ recent_menu = recent

\* C2 as claimed: without an exact match, the description shown is that of
\* the first description child without a lang, else of the first
\* _description child.
C2_Claimed ==
    (tree # 0 /\ ExactMatches = {}) =>
        LET untagged == {m \in ChildElements(SelDoc, SelNode, "description") :
                            SelDoc[m].lang = None}
            legacy == ChildElements(SelDoc, SelNode, "_description")
            chosen == IF untagged # {} THEN Least(untagged)
                      ELSE IF legacy # {} THEN Least(legacy)
                      ELSE 0
        IN (chosen # 0 /\ ~Blank(SelDoc[chosen].text)) =>
               descLabel = Strip(SelDoc[chosen].text)

\* C3 as claimed: the description shown is never blank; it is the sentinel
\* when no element was chosen or its text is blank, else the stripped text.
C3_Claimed ==
    tree # 0 =>
        LET el == DescEl(SelDoc, SelNode, LocaleTag) IN
        /\ ~Blank(descLabel)
        /\ descLabel = IF el = 0 \/ Blank(SelDoc[el].text) THEN NoDescription
                       ELSE Strip(SelDoc[el].text)

\* The first defaults child of the selected action, 0 for none
SelDefaults ==
    LET blocks == ChildElements(SelDoc, SelNode, "defaults")
    IN IF blocks = {} THEN 0 ELSE Least(blocks)

\* The table holds one <<tag, value>> row per child element of SelDefaults,
\* in order, the value "" where the child has no text; no row without it.
DefaultsAsClaimed ==
    LET kids == {m \in 1..Len(SelDoc) : /\ SelDefaults # 0
                                        /\ SelDoc[m].parent = SelDefaults
                                        /\ SelDoc[m].kind = "element"}
        Rank(m) == Cardinality({k \in kids : k <= m})
    IN /\ Len(defaults) = Cardinality(kids)
       /\ \A m \in kids :
             defaults[Rank(m)] =
                 <<SelDoc[m].tag,
                   IF SelDoc[m].text = None THEN <<>> ELSE SelDoc[m].text>>

\* C7 as claimed: the defaults rows of the selected action are one
\* (tag, value) pair per child of its first defaults child, in document order.
C7_Claimed == tree # 0 => DefaultsAsClaimed

\* What holds of the table: the same, for a defaults element whose child
\* nodes are all elements.
DefaultsOfElementsOnly ==
    (tree # 0 /\ \A m \in 1..Len(SelDoc) :
                    SelDoc[m].parent = SelDefaults => SelDoc[m].kind = "element")
        => DefaultsAsClaimed

\* C10 as claimed: what the details pane shows is the description and the
\* defaults of an action of the document now loaded.
C10_Claimed ==
    (descLabel # <<>> \/ defaults # <<>>) =>
        \E i \in 1..Len(model) :
            LET doc == Parse(model[i].data[1]).doc
                n == model[i].data[2]
            IN /\ descLabel = DescText(doc, DescEl(doc, n, LocaleTag))
               /\ defaults = DefaultsRows(doc, n).rows

=============================================================================
